---- MODULE Spec2Model ----
(***************************************************************************)
(* Model of the device (iot_client.py, class ClienteIoT) and the hub       *)
(* (iot_server.py, class ServidorIoT) of the polymorphic-cipher protocol.  *)
(*                                                                         *)
(* Python integers are unbounded and non-negative here; TLC's integers are *)
(* 32 bits wide.  A Python int is therefore modelled as the sequence of    *)
(* its bytes, least significant first and with no zero byte at the high    *)
(* end (the int 0x0102 is <<2, 1>>, the int 0 is <<>>), and the bitwise    *)
(* and arithmetic operators of the source are defined on that form with no *)
(* width limit, exactly as Python computes them.  Only where the source    *)
(* masks with 0xFFFFFFFFFFFFFFFF is a value cut to 64 bits.                *)
(***************************************************************************)
EXTENDS Integers, Sequences, FiniteSets, TLC

(* ------------------------------------------------------------------ *)
(* Python int arithmetic on byte sequences                             *)
(* ------------------------------------------------------------------ *)

\* 2^n for small n
RECURSIVE Pot2(_)
Pot2(n) == IF n = 0 THEN 1 ELSE 2 * Pot2(n - 1)

\* bit i of a value below 16
BitDe(a, i) == (a \div Pot2(i)) % 2

\* a ^ b, a & b and a | b of two values below 16, tabulated
XorN == [a \in 0..15 |-> [b \in 0..15 |->
           ((BitDe(a, 0) + BitDe(b, 0)) % 2) + 2 * ((BitDe(a, 1) + BitDe(b, 1)) % 2)
           + 4 * ((BitDe(a, 2) + BitDe(b, 2)) % 2) + 8 * ((BitDe(a, 3) + BitDe(b, 3)) % 2)]]
AndN == [a \in 0..15 |-> [b \in 0..15 |->
           BitDe(a, 0) * BitDe(b, 0) + 2 * (BitDe(a, 1) * BitDe(b, 1))
           + 4 * (BitDe(a, 2) * BitDe(b, 2)) + 8 * (BitDe(a, 3) * BitDe(b, 3))]]
OrN  == [a \in 0..15 |-> [b \in 0..15 |-> a + b - AndN[a][b]]]

\* a ^ b, a & b and a | b of two bytes
XorB(a, b) == 16 * XorN[a \div 16][b \div 16] + XorN[(a % 16)][(b % 16)]
AndB(a, b) == 16 * AndN[a \div 16][b \div 16] + AndN[(a % 16)][(b % 16)]
OrB(a, b)  == 16 * OrN[a \div 16][b \div 16] + OrN[(a % 16)][(b % 16)]

\* byte k (1 = least significant) of x, 0 beyond its length
ByteDe(x, k) == IF k >= 1 /\ k <= Len(x) THEN x[k] ELSE 0

\* the int whose bytes are x: the zero bytes at the high end dropped
Norm(x) ==
    LET S == {k \in 1..Len(x) : x[k] # 0}
    IN  IF S = {} THEN <<>> ELSE SubSeq(x, 1, CHOOSE i \in S : \A j \in S : j <= i)

MaxLen(x, y) == IF Len(x) >= Len(y) THEN Len(x) ELSE Len(y)

\* x ^ y, x & y, x | y
XOR(x, y) == Norm([k \in 1..MaxLen(x, y) |-> XorB(ByteDe(x, k), ByteDe(y, k))])
AND(x, y) == Norm([k \in 1..MaxLen(x, y) |-> AndB(ByteDe(x, k), ByteDe(y, k))])
OR(x, y)  == Norm([k \in 1..MaxLen(x, y) |-> OrB(ByteDe(x, k), ByteDe(y, k))])

\* x << n and x >> n, n = 8a + r
SHL(x, n) ==
    LET a == n \div 8
        r == n % 8
    IN  Norm([k \in 1..(Len(x) + a + 1) |->
                ((ByteDe(x, k - a) * Pot2(r)) % 256) + (ByteDe(x, k - a - 1) \div Pot2(8 - r))])
SHR(x, n) ==
    LET a == n \div 8
        r == n % 8
    IN  Norm([k \in 1..Len(x) |->
                (ByteDe(x, k + a) \div Pot2(r)) + ((ByteDe(x, k + a + 1) % Pot2(r)) * Pot2(8 - r))])

\* the literals 0xFFFF and 0xFFFFFFFFFFFFFFFF
MASK16 == <<255, 255>>
MASK64 == <<255, 255, 255, 255, 255, 255, 255, 255>>

\* x + y byte by byte from byte k upwards, c the carry into byte k
RECURSIVE Acarreo(_, _, _, _)
Acarreo(x, y, k, c) ==
    IF k > MaxLen(x, y)
    THEN (IF c = 0 THEN <<>> ELSE <<c>>)
    ELSE <<(ByteDe(x, k) + ByteDe(y, k) + c) % 256>>
         \o Acarreo(x, y, k + 1, (ByteDe(x, k) + ByteDe(y, k) + c) \div 256)
SUMA(x, y) == Norm(Acarreo(x, y, 1, 0))

\* a small non-negative TLC integer (below 2^24) as a Python int, and back
Entero(n) == Norm(<<n % 256, (n \div 256) % 256, n \div 65536>>)
Valor(x)  == ByteDe(x, 1) + 256 * ByteDe(x, 2) + 65536 * ByteDe(x, 3)

(* ------------------------------------------------------------------ *)
(* Key derivation primitives (identical in ClienteIoT and ServidorIoT) *)
(* ------------------------------------------------------------------ *)

\* return (x ^ y) + ((x & 0xFFFF) | (y << 16))
funcion_mezcla(x, y) == SUMA(XOR(x, y), OR(AND(x, MASK16), SHL(y, 16)))

\* rotado = ((x >> 32) | (x << 32)) & 0xFFFFFFFFFFFFFFFF ; return rotado ^ y
funcion_generacion_sin_mascara(x, y) == XOR(OR(SHR(x, 32), SHL(x, 32)), y)
funcion_generacion(x, y) ==
    LET rotado == AND(OR(SHR(x, 32), SHL(x, 32)), MASK64)
    IN  XOR(rotado, y)

\* return (x + y) ^ ((x << 8) | (y >> 8))
funcion_mutacion(x, y) == XOR(SUMA(x, y), OR(SHL(x, 8), SHR(y, 8)))

\* the number of keys of a schedule: for i in range(4)
NumLlaves == 4

\* the loop of generar_llaves: i keys left to derive, seed s
RECURSIVE BucleLlaves(_, _, _, _)
BucleLlaves(p, q, s, i) ==
    IF i = 0 THEN <<>>
    ELSE LET p0    == funcion_mezcla(p, s)
             llave == funcion_generacion(p0, q)
         IN  <<llave>> \o BucleLlaves(p, q, funcion_mutacion(s, q), i - 1)

generar_llaves(p, q, s) == BucleLlaves(p, q, s, NumLlaves)

\* The copies in ServidorIoT, translated from iot_server.py on their own.

\* return (x ^ y) + ((x & 0xFFFF) | (y << 16))
Servidor_funcion_mezcla(x, y) == SUMA(XOR(x, y), OR(AND(x, MASK16), SHL(y, 16)))

\* rotado = ((x >> 32) | (x << 32)) & 0xFFFFFFFFFFFFFFFF ; return rotado ^ y
Servidor_funcion_generacion(x, y) ==
    LET rotado == AND(OR(SHR(x, 32), SHL(x, 32)), MASK64)
    IN  XOR(rotado, y)

\* return (x + y) ^ ((x << 8) | (y >> 8))
Servidor_funcion_mutacion_desplaza_7(x, y) == XOR(SUMA(x, y), OR(SHL(x, 7), SHR(y, 8)))
Servidor_funcion_mutacion(x, y) == XOR(SUMA(x, y), OR(SHL(x, 8), SHR(y, 8)))

\* the loop of ServidorIoT.generar_llaves: for i in range(4)
RECURSIVE Servidor_BucleLlaves(_, _, _, _)
Servidor_BucleLlaves(p, q, s, i) ==
    IF i = 0 THEN <<>>
    ELSE LET p0    == Servidor_funcion_mezcla(p, s)
             llave == Servidor_funcion_generacion(p0, q)
         IN  <<llave>> \o Servidor_BucleLlaves(p, q, Servidor_funcion_mutacion(s, q), i - 1)

Servidor_generar_llaves(p, q, s) == Servidor_BucleLlaves(p, q, s, NumLlaves)

(* ------------------------------------------------------------------ *)
(* Text, bytes and the cipher transform                                *)
(* ------------------------------------------------------------------ *)

\* A str is a sequence of code points, a bytes object a sequence of 0..255.

\* the block size of the cipher: ljust(8, b'\x00')[:8] and to_bytes(8, 'big')
BLOQUE == 8

\* one code point encoded as UTF-8 (str.encode('utf-8'))
CodificarCP(c) ==
    IF c < 128 THEN <<c>>
    ELSE IF c < 2048 THEN <<192 + (c \div 64), 128 + (c % 64)>>
    ELSE IF c < 65536
         THEN <<224 + (c \div 4096), 128 + ((c \div 64) % 64), 128 + (c % 64)>>
         ELSE <<240 + (c \div 262144), 128 + ((c \div 4096) % 64),
                128 + ((c \div 64) % 64), 128 + (c % 64)>>

RECURSIVE encode_utf8(_)
encode_utf8(m) == IF m = <<>> THEN <<>> ELSE CodificarCP(Head(m)) \o encode_utf8(Tail(m))

\* b.ljust(8, b'\x00')[:8]
Ajustar(b) == [k \in 1..BLOQUE |-> IF k <= Len(b) THEN b[k] ELSE 0]

\* int.from_bytes(b, 'big'): the first byte of b is the most significant
from_bytes_big(b) == Norm([k \in 1..Len(b) |-> b[Len(b) + 1 - k]])

\* num.to_bytes(8, 'big') of a value below 2^64
to_bytes_big(x) == [k \in 1..BLOQUE |-> ByteDe(x, BLOQUE + 1 - k)]

\* ((num >> 4) | (num << 60)) & 0xFFFFFFFFFFFFFFFF
RotarDerecha4(n) == AND(OR(SHR(n, 4), SHL(n, 60)), MASK64)
\* ((cifrado << 4) | (cifrado >> 60)) & 0xFFFFFFFFFFFFFFFF
RotarIzquierda4_sin_vuelta(n) == AND(SHL(n, 4), MASK64)
RotarIzquierda4(n) == AND(OR(SHL(n, 4), SHR(n, 60)), MASK64)

\* ClienteIoT.cifrar_mensaje(mensaje, llave)
cifrar_mensaje(mensaje, llave) ==
    LET datos == Ajustar(encode_utf8(mensaje))
        num   == from_bytes_big(datos)
    IN  RotarDerecha4(XOR(num, llave))

\* bytes.decode('utf-8'), strict: the length of the well-formed character at the
\* head of b, 0 when b does not start with one
Cont(b, k) == k <= Len(b) /\ b[k] >= 128 /\ b[k] <= 191
LargoUTF8(b) ==
    LET b1 == b[1]
    IN  IF b1 < 128 THEN 1
        ELSE IF b1 >= 194 /\ b1 <= 223 /\ Cont(b, 2) THEN 2
        ELSE IF b1 = 224 /\ Cont(b, 2) /\ b[2] >= 160 /\ Cont(b, 3) THEN 3
        ELSE IF ((b1 >= 225 /\ b1 <= 236) \/ b1 = 238 \/ b1 = 239)
                /\ Cont(b, 2) /\ Cont(b, 3) THEN 3
        ELSE IF b1 = 237 /\ Cont(b, 2) /\ b[2] <= 159 /\ Cont(b, 3) THEN 3
        ELSE IF b1 = 240 /\ Cont(b, 2) /\ b[2] >= 144 /\ Cont(b, 3) /\ Cont(b, 4) THEN 4
        ELSE IF b1 >= 241 /\ b1 <= 243 /\ Cont(b, 2) /\ Cont(b, 3) /\ Cont(b, 4) THEN 4
        ELSE IF b1 = 244 /\ Cont(b, 2) /\ b[2] <= 143 /\ Cont(b, 3) /\ Cont(b, 4) THEN 4
        ELSE 0

\* the code point of the well-formed character of n bytes at the head of b
PuntoDeCodigo(b, n) ==
    IF n = 1 THEN b[1]
    ELSE IF n = 2 THEN (b[1] - 192) * 64 + (b[2] - 128)
    ELSE IF n = 3 THEN (b[1] - 224) * 4096 + (b[2] - 128) * 64 + (b[3] - 128)
    ELSE (b[1] - 240) * 262144 + (b[2] - 128) * 4096 + (b[3] - 128) * 64 + (b[4] - 128)

RECURSIVE BienFormado(_)
BienFormado(b) ==
    b = <<>> \/ (LargoUTF8(b) > 0 /\ BienFormado(SubSeq(b, LargoUTF8(b) + 1, Len(b))))

RECURSIVE decode_utf8(_)
decode_utf8(b) ==
    IF b = <<>> THEN <<>>
    ELSE LET n == LargoUTF8(b)
         IN  <<PuntoDeCodigo(b, n)>> \o decode_utf8(SubSeq(b, n + 1, Len(b)))

\* str.strip('\x00'): drops the NUL characters at both ends
strip_nul(t) ==
    LET S == {k \in 1..Len(t) : t[k] # 0}
    IN  IF S = {} THEN <<>>
        ELSE SubSeq(t, CHOOSE i \in S : \A j \in S : i <= j,
                       CHOOSE i \in S : \A j \in S : j <= i)

\* ServidorIoT.descifrar_mensaje(cifrado, llave): the text returned, or the
\* exception raised (exc is "" when the call returns)
descifrar_mensaje(cifrado, llave) ==
    LET num == XOR(RotarIzquierda4(cifrado), llave)
    IN  IF Len(num) > BLOQUE
        THEN [exc |-> "OverflowError", texto |-> <<>>]
        ELSE LET b == to_bytes_big(num)
             IN  IF BienFormado(b)
                 THEN [exc |-> "", texto |-> strip_nul(decode_utf8(b))]
                 ELSE [exc |-> "UnicodeDecodeError", texto |-> <<>>]

(* ------------------------------------------------------------------ *)
(* Frames: struct.pack / struct.unpack and the files that carry them    *)
(* ------------------------------------------------------------------ *)

\* TipoMensaje
FCM == 0
RM  == 1
KUM == 2
LCM == 3

\* struct.pack('B', (self.id << 2) | tipo)
Cabecera(id, tipo) == Valor(OR(SHL(Entero(id), 2), Entero(tipo)))
\* cabecera >> 2 and cabecera & 0b11
IdDe_desplaza_3(cabecera) == Valor(SHR(Entero(cabecera), 3))
IdDe(cabecera)   == Valor(SHR(Entero(cabecera), 2))
TipoDe(cabecera) == Valor(AND(Entero(cabecera), Entero(3)))

\* struct.pack('Q', x): 8 bytes, native (little-endian) order, for x below 2^64
PackQ(x) == [k \in 1..8 |-> ByteDe(x, k)]
\* struct.unpack('Q', b): b has exactly 8 bytes
UnpackQ(b) == Norm(b)

\* what procesar_fcm and procesar_kum read from a file of 25 bytes or more:
\* cabecera = unpack('B', f.read(1)), p, q, s = unpack('QQQ', f.read(24))
LeerParametros(b) ==
    [id |-> IdDe(b[1]), tipo |-> TipoDe(b[1]), p |-> UnpackQ(SubSeq(b, 2, 9)),
     q |-> UnpackQ(SubSeq(b, 10, 17)), s |-> UnpackQ(SubSeq(b, 18, 25))]
\* what procesar_rm reads from a file of 10 bytes or more
LeerRM(b) ==
    [id |-> IdDe(b[1]), tipo |-> TipoDe(b[1]), idx_llave |-> b[2],
     cifrado |-> UnpackQ(SubSeq(b, 3, 10))]
\* what procesar_lcm reads from a file of 1 byte or more
LeerLCM(b) == [id |-> IdDe(b[1]), tipo |-> TipoDe(b[1])]

\* the files the device writes and the hub reads
Nombres == {"fcm.bin", "rm.bin", "kum.bin", "lcm.bin"}

\* open(nombre, 'wb') ... f.write(...): the file now holds exactly these bytes
Escribir(arch, nombre, bytes) ==
    [n \in DOMAIN arch \cup {nombre} |-> IF n = nombre THEN bytes ELSE arch[n]]

(* ------------------------------------------------------------------ *)
(* Inputs                                                              *)
(* ------------------------------------------------------------------ *)

\* how many sample 64-bit values random.getrandbits(64) is drawn from
NumSemillas == 2

\* sample 64-bit values: 2^64 - 1, then byte patterns
Muestra64(i) == IF i = 0 THEN MASK64
                ELSE Norm([k \in 1..8 |-> (k * 37 * i + 200) % 256])
Semillas == {Muestra64(i) : i \in 0..(NumSemillas - 1)}

\* generar_primo(bits=16): any 16-bit num > 1 that none of 2,3,5,7,11,13 divides;
\* the draws are taken from a few candidates, most of which the test rejects
Candidatos == {0, 1, 15, 65521, 65535}
generar_primo ==
    {Entero(num) : num \in {c \in Candidatos :
                              c > 1 /\ \A i \in {2, 3, 5, 7, 11, 13} : c % i # 0}}

\* random.randint(0, 63)
Identidades == {5, 63}

\* texts given to crear_rm: "hi", "12345678", "a\0" and "123456789"
Mensajes == {<<104, 105>>, <<49, 50, 51, 52, 53, 54, 55, 56>>, <<97, 0>>,
             <<49, 50, 51, 52, 53, 54, 55, 56, 57>>}

\* the sample parameters (p, q, s) and their schedules, derived once
ParametrosMuestra == generar_primo \X generar_primo \X Semillas
TablaLlaves ==
    {<<t, generar_llaves(t[1], t[2], t[3])>> : t \in ParametrosMuestra}
LlavesMuestra(t) == (CHOOSE par \in TablaLlaves : par[1] = t)[2]
\* generar_llaves(p, q, s), looked up when (p, q, s) is a sample
Llaves(p, q, s) ==
    IF <<p, q, s>> \in ParametrosMuestra THEN LlavesMuestra(<<p, q, s>>)
    ELSE generar_llaves(p, q, s)

\* the same for ServidorIoT.generar_llaves(p, q, s)
TablaLlavesServidor ==
    {<<t, Servidor_generar_llaves(t[1], t[2], t[3])>> : t \in ParametrosMuestra}
LlavesServidor(p, q, s) ==
    IF <<p, q, s>> \in ParametrosMuestra
    THEN (CHOOSE par \in TablaLlavesServidor : par[1] = <<p, q, s>>)[2]
    ELSE Servidor_generar_llaves(p, q, s)

(* ------------------------------------------------------------------ *)
(* State                                                               *)
(* ------------------------------------------------------------------ *)

VARIABLES
    disp,      \* device instance -> the fields of its ClienteIoT object
    consola,   \* device instance -> the last line its methods printed
    rm_json,   \* rm.json as last written by crear_rm: the text and the index
    archivos,  \* the .bin files that exist, each with its bytes
    clientes,  \* ServidorIoT.clientes: identity -> {p, q, s, llaves}
    srv,       \* the hub process: the last handler run, the exception that ended
               \* the process ("" while it runs), the status the handler reported,
               \* the identity it parsed and the text it recovered
    turno,     \* lockstep runs only: whose step it is
    racha,     \* history, per device: length of its current run of crear_rm calls
               \* (up to 4) and the key index before that run (device-only runs)
    banco,     \* bench: inputs and results of the pure functions run on their own
    pasos      \* two-device runs only: the menu options chosen so far

vars == <<disp, consola, rm_json, archivos, clientes, srv, turno, racha, banco, pasos>>

\* ClienteIoT.__init__
ClienteNuevo(i) ==
    [id |-> i, llaves |-> <<>>, llave_actual |-> 0, p |-> <<>>, q |-> <<>>, s |-> <<>>]

SinRegistro == [mensaje_original |-> <<>>, indice |-> -1]
SrvInicial  == [op |-> "", excepcion |-> "", salida |-> "", id |-> -1, mensaje |-> <<>>]
RachaInicial == [n |-> 0, inicio |-> 0]
BancoVacio  == [fase |-> "nada", texto |-> <<>>, llave |-> <<>>, llave2 |-> <<>>,
                cifrado |-> <<>>, claro |-> [exc |-> "", texto |-> <<>>]]

InitDisp(D) ==
    /\ disp \in [D -> {ClienteNuevo(i) : i \in Identidades}]
    /\ consola = [d \in D |-> ""]
    /\ rm_json = SinRegistro
    /\ archivos = <<>>
    /\ clientes = <<>>
    /\ srv = SrvInicial
    /\ turno = "cliente"
    /\ racha = [d \in D |-> RachaInicial]
    /\ banco = BancoVacio
    /\ pasos = 0

Init == InitDisp({1})

(* ------------------------------------------------------------------ *)
(* The device: the methods of ClienteIoT                               *)
(* ------------------------------------------------------------------ *)

\* the object after self.p, self.q, self.s = ... and self.generar_llaves(),
\* which rebuilds self.llaves (self.llaves = [] first) and touches no other field
ConLlaves_sin_reinicio(c, p, q, s) ==
    [c EXCEPT !.p = p, !.q = q, !.s = s, !.llaves = c.llaves \o Llaves(p, q, s)]
ConLlaves(c, p, q, s) ==
    [c EXCEPT !.p = p, !.q = q, !.s = s, !.llaves = Llaves(p, q, s)]

\* the bytes of fcm.bin and kum.bin: header, then struct.pack('QQQ', p, q, s)
TramaParametros(id, tipo, p, q, s) ==
    <<Cabecera(id, tipo)>> \o PackQ(p) \o PackQ(q) \o PackQ(s)

\* the bytes of rm.bin: header, struct.pack('B', indice), struct.pack('Q', cifrado)
TramaRM_indice_siguiente(id, indice, cifrado) ==
    <<Cabecera(id, RM), (indice + 1) % 4>> \o PackQ(cifrado)
TramaRM(id, indice, cifrado) == <<Cabecera(id, RM), indice>> \o PackQ(cifrado)

\* the bytes of lcm.bin: the header alone
TramaLCM(id) == <<Cabecera(id, LCM)>>

crear_fcm(d) ==
    \E p \in generar_primo, q \in generar_primo, s \in Semillas :
        /\ disp' = [disp EXCEPT ![d] = ConLlaves(disp[d], p, q, s)]
        /\ archivos' = Escribir(archivos, "fcm.bin",
                                TramaParametros(disp[d].id, FCM, p, q, s))
        /\ consola' = [consola EXCEPT ![d] = "[FCM CREADO] Valores guardados en fcm.json"]
        /\ UNCHANGED <<rm_json, clientes, srv, banco>>

\* self.llave_actual = (self.llave_actual + 1) % 4
SiguienteIndice_modulo3(i) == (i + 1) % 3
SiguienteIndice(i) == (i + 1) % 4

\* crear_rm without a schedule: the error line, then return
rm_sin_llaves_abre_antes(d) ==
    /\ consola' = [consola EXCEPT ![d] = "Error: Primero debe generar FCM"]
    /\ archivos' = Escribir(archivos, "rm.bin", <<>>)
    /\ UNCHANGED <<disp, rm_json, clientes, srv, banco>>
rm_sin_llaves(d) ==
    /\ consola' = [consola EXCEPT ![d] = "Error: Primero debe generar FCM"]
    /\ UNCHANGED <<disp, rm_json, archivos, clientes, srv, banco>>

crear_rm(d, mensaje) ==
    IF disp[d].llaves = <<>>
    THEN rm_sin_llaves(d)
    ELSE LET llave   == disp[d].llaves[disp[d].llave_actual + 1]
             cifrado == cifrar_mensaje(mensaje, llave)
         IN  /\ consola' = [consola EXCEPT ![d] = "[RM CREADO] Detalles en rm.json"]
             /\ rm_json' = [mensaje_original |-> mensaje,
                            indice |-> disp[d].llave_actual]
             /\ archivos' = Escribir(archivos, "rm.bin",
                                     TramaRM(disp[d].id, disp[d].llave_actual, cifrado))
             /\ disp' = [disp EXCEPT
                           ![d].llave_actual = SiguienteIndice(disp[d].llave_actual)]
             /\ UNCHANGED <<clientes, srv, banco>>

crear_kum(d) ==
    \E p \in generar_primo, q \in generar_primo, s \in Semillas :
        /\ disp' = [disp EXCEPT ![d] = ConLlaves(disp[d], p, q, s)]
        /\ archivos' = Escribir(archivos, "kum.bin",
                                TramaParametros(disp[d].id, KUM, p, q, s))
        /\ consola' = [consola EXCEPT ![d] = "[KUM CREADO] Nuevas llaves en kum.json"]
        /\ UNCHANGED <<rm_json, clientes, srv, banco>>

crear_lcm(d) ==
    /\ archivos' = Escribir(archivos, "lcm.bin", TramaLCM(disp[d].id))
    /\ disp' = [disp EXCEPT ![d].llaves = <<>>]
    /\ consola' = [consola EXCEPT ![d] =
                     "[LCM CREADO] Conexion terminada. Detalles en lcm.json"]
    /\ UNCHANGED <<rm_json, clientes, srv, banco>>

(* ------------------------------------------------------------------ *)
(* The hub: the handlers of ServidorIoT                                *)
(* ------------------------------------------------------------------ *)

\* what a handler reports: a printed status, or an exception it does not catch
\* (the handlers catch FileNotFoundError only; main() catches nothing, so any
\* other exception ends the hub process)
Informe(op, salida, id, mensaje) ==
    [op |-> op, excepcion |-> "", salida |-> salida, id |-> id, mensaje |-> mensaje]
Excepcion(op, exc, id) ==
    [op |-> op, excepcion |-> exc, salida |-> "", id |-> id, mensaje |-> <<>>]

\* self.clientes[id_cliente] = {'p': p, 'q': q, 's': s, 'llaves': llaves}
Registrar_conserva_parametros(tabla, id, p, q, s) ==
    [i \in DOMAIN tabla \cup {id} |->
        IF i # id THEN tabla[i]
        ELSE IF id \in DOMAIN tabla
        THEN [tabla[id] EXCEPT !.llaves = LlavesServidor(p, q, s)]
        ELSE [p |-> p, q |-> q, s |-> s, llaves |-> LlavesServidor(p, q, s)]]
Registrar_solo_el_nuevo(tabla, id, p, q, s) ==
    [i \in {id} |-> [p |-> p, q |-> q, s |-> s, llaves |-> LlavesServidor(p, q, s)]]
Registrar(tabla, id, p, q, s) ==
    [i \in DOMAIN tabla \cup {id} |->
        IF i = id THEN [p |-> p, q |-> q, s |-> s, llaves |-> LlavesServidor(p, q, s)]
        ELSE tabla[i]]

\* del self.clientes[id_cliente]
Eliminar_todo(tabla, id) == <<>>
Eliminar(tabla, id) == [i \in DOMAIN tabla \ {id} |-> tabla[i]]

\* procesar_fcm: the table and the report after the call
ResultadoFCM(arch, tabla) ==
    IF "fcm.bin" \notin DOMAIN arch
    THEN [tabla |-> tabla, srv |-> Informe("fcm", "Error: No se encontró fcm.bin", -1, <<>>)]
    ELSE LET b == arch["fcm.bin"]
         IN  IF Len(b) < 25
             THEN [tabla |-> tabla, srv |-> Excepcion("fcm", "struct.error", -1)]
             ELSE LET id_cliente == LeerParametros(b).id
                      p == LeerParametros(b).p
                      q == LeerParametros(b).q
                      s == LeerParametros(b).s
                  IN  IF LeerParametros(b).tipo # FCM
                      THEN [tabla |-> tabla,
                            srv |-> Informe("fcm", "Error: No es un mensaje FCM válido",
                                            id_cliente, <<>>)]
                      ELSE [tabla |-> Registrar(tabla, id_cliente, p, q, s),
                            srv |-> Informe("fcm", "Conexion establecida", id_cliente, <<>>)]

\* procesar_rm
ResultadoRM(arch, tabla) ==
    IF "rm.bin" \notin DOMAIN arch
    THEN [tabla |-> tabla, srv |-> Informe("rm", "Error: No se encontró rm.bin", -1, <<>>)]
    ELSE LET b == arch["rm.bin"]
         IN  IF Len(b) < 10
             THEN [tabla |-> tabla, srv |-> Excepcion("rm", "struct.error", -1)]
             ELSE LET id_cliente == LeerRM(b).id
                      idx_llave  == LeerRM(b).idx_llave
                      cifrado    == LeerRM(b).cifrado
                  IN  IF LeerRM(b).tipo # RM
                      THEN [tabla |-> tabla,
                            srv |-> Informe("rm", "Error: No es un mensaje RM válido",
                                            id_cliente, <<>>)]
                      ELSE IF id_cliente \notin DOMAIN tabla
                      THEN [tabla |-> tabla,
                            srv |-> Informe("rm", "Error: Cliente no registrado",
                                            id_cliente, <<>>)]
                      ELSE IF idx_llave >= Len(tabla[id_cliente].llaves)
                      THEN [tabla |-> tabla, srv |-> Excepcion("rm", "IndexError", id_cliente)]
                      ELSE LET llave == tabla[id_cliente].llaves[idx_llave + 1]
                               m     == descifrar_mensaje(cifrado, llave)
                           IN  IF m.exc # ""
                               THEN [tabla |-> tabla,
                                     srv |-> Excepcion("rm", m.exc, id_cliente)]
                               ELSE [tabla |-> tabla,
                                     srv |-> Informe("rm", "Mensaje descifrado",
                                                     id_cliente, m.texto)]

\* procesar_kum
ResultadoKUM_sin_registro(arch, tabla) ==
    IF "kum.bin" \in DOMAIN arch /\ Len(arch["kum.bin"]) >= 25
       /\ TipoDe(arch["kum.bin"][1]) = KUM
    THEN LET b == arch["kum.bin"]
         IN  [tabla |-> Registrar(tabla, IdDe(b[1]), UnpackQ(SubSeq(b, 2, 9)),
                                  UnpackQ(SubSeq(b, 10, 17)), UnpackQ(SubSeq(b, 18, 25))),
              srv |-> Informe("kum", "Llaves actualizadas", IdDe(b[1]), <<>>)]
    ELSE [tabla |-> tabla, srv |-> Informe("kum", "Error: No se encontró kum.bin", -1, <<>>)]
ResultadoKUM(arch, tabla) ==
    IF "kum.bin" \notin DOMAIN arch
    THEN [tabla |-> tabla, srv |-> Informe("kum", "Error: No se encontró kum.bin", -1, <<>>)]
    ELSE LET b == arch["kum.bin"]
         IN  IF Len(b) < 25
             THEN [tabla |-> tabla, srv |-> Excepcion("kum", "struct.error", -1)]
             ELSE LET id_cliente == LeerParametros(b).id
                      p == LeerParametros(b).p
                      q == LeerParametros(b).q
                      s == LeerParametros(b).s
                  IN  IF LeerParametros(b).tipo # KUM
                      THEN [tabla |-> tabla,
                            srv |-> Informe("kum", "Error: No es un mensaje KUM válido",
                                            id_cliente, <<>>)]
                      ELSE IF id_cliente \notin DOMAIN tabla
                      THEN [tabla |-> tabla,
                            srv |-> Informe("kum", "Error: Cliente no registrado",
                                            id_cliente, <<>>)]
                      ELSE [tabla |-> Registrar(tabla, id_cliente, p, q, s),
                            srv |-> Informe("kum", "Llaves actualizadas", id_cliente, <<>>)]

\* procesar_lcm
ResultadoLCM_sin_borrar(arch, tabla) ==
    IF "lcm.bin" \in DOMAIN arch /\ Len(arch["lcm.bin"]) >= 1
       /\ TipoDe(arch["lcm.bin"][1]) = LCM /\ IdDe(arch["lcm.bin"][1]) \in DOMAIN tabla
    THEN [tabla |-> tabla,
          srv |-> Informe("lcm", "Cliente desconectado", IdDe(arch["lcm.bin"][1]), <<>>)]
    ELSE [tabla |-> tabla, srv |-> Informe("lcm", "Cliente no existia", -1, <<>>)]
ResultadoLCM(arch, tabla) ==
    IF "lcm.bin" \notin DOMAIN arch
    THEN [tabla |-> tabla, srv |-> Informe("lcm", "Error: No se encontró lcm.bin", -1, <<>>)]
    ELSE LET b == arch["lcm.bin"]
         IN  IF Len(b) < 1
             THEN [tabla |-> tabla, srv |-> Excepcion("lcm", "struct.error", -1)]
             ELSE LET id_cliente == LeerLCM(b).id
                  IN  IF LeerLCM(b).tipo # LCM
                      THEN [tabla |-> tabla,
                            srv |-> Informe("lcm", "Error: No es un mensaje LCM válido",
                                            id_cliente, <<>>)]
                      ELSE IF id_cliente \in DOMAIN tabla
                      THEN [tabla |-> Eliminar(tabla, id_cliente),
                            srv |-> Informe("lcm", "Cliente desconectado", id_cliente, <<>>)]
                      ELSE [tabla |-> tabla,
                            srv |-> Informe("lcm", "Cliente no existia", id_cliente, <<>>)]

\* a handler runs while the hub process is alive: option 1..4 of main()
Procesar(r) ==
    /\ srv.excepcion = ""
    /\ clientes' = r.tabla
    /\ srv' = r.srv
    /\ UNCHANGED <<disp, consola, rm_json, archivos, banco>>

procesar_fcm == Procesar(ResultadoFCM(archivos, clientes))
procesar_rm  == Procesar(ResultadoRM(archivos, clientes))
procesar_kum == Procesar(ResultadoKUM(archivos, clientes))
procesar_lcm == Procesar(ResultadoLCM(archivos, clientes))

(* ------------------------------------------------------------------ *)
(* The device alone: the methods of ClienteIoT called in any order      *)
(* ------------------------------------------------------------------ *)

\* the run of crear_rm calls after one more call made at key index i: the last
\* four calls at most, with the index before the first of them
SigueRacha(r, i) ==
    IF r.n = 0 THEN [n |-> 1, inicio |-> i]
    ELSE IF r.n < 4 THEN [n |-> r.n + 1, inicio |-> r.inicio]
    ELSE [n |-> 4, inicio |-> (r.inicio + 1) % 4]

\* a call that is no successful crear_rm ends the run
FinRacha(d) == racha' = [racha EXCEPT ![d] = RachaInicial]

LlamaFCM(d) == crear_fcm(d) /\ FinRacha(d) /\ UNCHANGED <<turno, pasos>>
LlamaRM(d, m) ==
    /\ crear_rm(d, m)
    /\ racha' = [racha EXCEPT ![d] =
                   IF disp[d].llaves = <<>> THEN RachaInicial
                   ELSE SigueRacha(racha[d], disp[d].llave_actual)]
    /\ UNCHANGED <<turno, pasos>>
LlamaKUM(d) == crear_kum(d) /\ FinRacha(d) /\ UNCHANGED <<turno, pasos>>
LlamaLCM(d) == crear_lcm(d) /\ FinRacha(d) /\ UNCHANGED <<turno, pasos>>

NextDisp ==
    \/ \E d \in DOMAIN disp : LlamaFCM(d)
    \/ \E d \in DOMAIN disp : \E m \in Mensajes : LlamaRM(d, m)
    \/ \E d \in DOMAIN disp : LlamaKUM(d)
    \/ \E d \in DOMAIN disp : LlamaLCM(d)

SpecDisp == Init /\ [][NextDisp]_vars

(* ------------------------------------------------------------------ *)
(* Device and hub in lockstep: the two main() loops, the hub processing *)
(* each frame before the device's next operation                        *)
(* ------------------------------------------------------------------ *)

\* main() of iot_client.py: options 2, 3 and 4 call the method only when
\* cliente.llaves is not empty, and print a line otherwise
Rechazo(d, linea) ==
    /\ consola' = [consola EXCEPT ![d] = linea]
    /\ UNCHANGED <<disp, rm_json, archivos, clientes, srv, banco>>

opcion_1(d) == crear_fcm(d)
opcion_2(d, msg) ==
    IF disp[d].llaves = <<>>
    THEN Rechazo(d, "Primero debe establecer conexión (FCM)")
    ELSE crear_rm(d, msg)
opcion_3(d) ==
    IF disp[d].llaves = <<>>
    THEN Rechazo(d, "Primero debe establecer conexión (FCM)")
    ELSE crear_kum(d)
opcion_4(d) ==
    IF disp[d].llaves = <<>>
    THEN Rechazo(d, "No hay conexión activa")
    ELSE crear_lcm(d)

\* after an option that wrote a frame the hub runs the matching handler
Emite(d, tipo) == turno' = IF disp[d].llaves = <<>> THEN "cliente" ELSE tipo

NextSync ==
    \/ \E d \in DOMAIN disp :
          turno = "cliente" /\ opcion_1(d) /\ turno' = "fcm" /\ UNCHANGED <<racha, pasos>>
    \/ \E d \in DOMAIN disp : \E m \in Mensajes :
          turno = "cliente" /\ opcion_2(d, m) /\ Emite(d, "rm") /\ UNCHANGED <<racha, pasos>>
    \/ \E d \in DOMAIN disp :
          turno = "cliente" /\ opcion_3(d) /\ Emite(d, "kum") /\ UNCHANGED <<racha, pasos>>
    \/ \E d \in DOMAIN disp :
          turno = "cliente" /\ opcion_4(d) /\ Emite(d, "lcm") /\ UNCHANGED <<racha, pasos>>
    \/ turno = "fcm" /\ procesar_fcm /\ turno' = "cliente" /\ UNCHANGED <<racha, pasos>>
    \/ turno = "rm" /\ procesar_rm /\ turno' = "cliente" /\ UNCHANGED <<racha, pasos>>
    \/ turno = "kum" /\ procesar_kum /\ turno' = "cliente" /\ UNCHANGED <<racha, pasos>>
    \/ turno = "lcm" /\ procesar_lcm /\ turno' = "cliente" /\ UNCHANGED <<racha, pasos>>

SpecSync == Init /\ [][NextSync]_vars

(* ------------------------------------------------------------------ *)
(* Two devices of distinct identities and the hub: the two client       *)
(* main() loops interleaved in any order, the hub processing each frame *)
(* before the next operation of either device                           *)
(* ------------------------------------------------------------------ *)

\* how many menu options the two devices choose in a run, both together
MaxPasos == 5

\* two ClienteIoT objects whose random identities differ
InitDos ==
    /\ InitDisp({1, 2})
    /\ disp[1].id < disp[2].id

\* the text a device sends: "hi" from the first, "12345678" from the second
MensajeDe(d) == IF d = 1 THEN <<104, 105>> ELSE <<49, 50, 51, 52, 53, 54, 55, 56>>

\* one more option chosen
Elige == turno = "cliente" /\ pasos < MaxPasos /\ pasos' = pasos + 1

NextDos ==
    \/ \E d \in DOMAIN disp :
          Elige /\ opcion_1(d) /\ turno' = "fcm" /\ UNCHANGED racha
    \/ \E d \in DOMAIN disp :
          Elige /\ opcion_2(d, MensajeDe(d)) /\ Emite(d, "rm") /\ UNCHANGED racha
    \/ \E d \in DOMAIN disp :
          Elige /\ opcion_3(d) /\ Emite(d, "kum") /\ UNCHANGED racha
    \/ \E d \in DOMAIN disp :
          Elige /\ opcion_4(d) /\ Emite(d, "lcm") /\ UNCHANGED racha
    \/ turno = "fcm" /\ procesar_fcm /\ turno' = "cliente" /\ UNCHANGED <<racha, pasos>>
    \/ turno = "rm" /\ procesar_rm /\ turno' = "cliente" /\ UNCHANGED <<racha, pasos>>
    \/ turno = "kum" /\ procesar_kum /\ turno' = "cliente" /\ UNCHANGED <<racha, pasos>>
    \/ turno = "lcm" /\ procesar_lcm /\ turno' = "cliente" /\ UNCHANGED <<racha, pasos>>

SpecDos == InitDos /\ [][NextDos]_vars

(* ------------------------------------------------------------------ *)
(* Device and hub in lockstep, the methods of ClienteIoT called         *)
(* directly in any order (no menu in between)                           *)
(* ------------------------------------------------------------------ *)

NextPaso ==
    \/ \E d \in DOMAIN disp :
          turno = "cliente" /\ crear_fcm(d) /\ turno' = "fcm" /\ UNCHANGED <<racha, pasos>>
    \/ \E d \in DOMAIN disp : \E m \in Mensajes :
          turno = "cliente" /\ crear_rm(d, m) /\ Emite(d, "rm") /\ UNCHANGED <<racha, pasos>>
    \/ \E d \in DOMAIN disp :
          turno = "cliente" /\ crear_kum(d) /\ turno' = "kum" /\ UNCHANGED <<racha, pasos>>
    \/ \E d \in DOMAIN disp :
          turno = "cliente" /\ crear_lcm(d) /\ turno' = "lcm" /\ UNCHANGED <<racha, pasos>>
    \/ turno = "fcm" /\ procesar_fcm /\ turno' = "cliente" /\ UNCHANGED <<racha, pasos>>
    \/ turno = "rm" /\ procesar_rm /\ turno' = "cliente" /\ UNCHANGED <<racha, pasos>>
    \/ turno = "kum" /\ procesar_kum /\ turno' = "cliente" /\ UNCHANGED <<racha, pasos>>
    \/ turno = "lcm" /\ procesar_lcm /\ turno' = "cliente" /\ UNCHANGED <<racha, pasos>>

SpecPaso == Init /\ [][NextPaso]_vars

(* ------------------------------------------------------------------ *)
(* The hub alone: frames arrive from the transport, the handlers run in *)
(* any order                                                            *)
(* ------------------------------------------------------------------ *)

\* key-index bytes a Regular frame may carry: in range, and 4 and 255
IndicesMuestra == {0, 3, 4, 255}

\* ciphertexts a Regular frame may carry: "hi" under the first and the last key
\* of each sample schedule
CifradosMuestra ==
    {cifrar_mensaje(<<104, 105>>, LlavesMuestra(t)[k]) : t \in ParametrosMuestra, k \in {1, 4}}

\* the frames a file may hold on arrival
Tramas(nombre) ==
    IF nombre = "fcm.bin"
    THEN {TramaParametros(i, FCM, t[1], t[2], t[3]) :
            i \in Identidades, t \in ParametrosMuestra}
    ELSE IF nombre = "kum.bin"
    THEN {TramaParametros(i, KUM, t[1], t[2], t[3]) :
            i \in Identidades, t \in ParametrosMuestra}
    ELSE IF nombre = "rm.bin"
    THEN {TramaRM(i, x, c) : i \in Identidades, x \in IndicesMuestra, c \in CifradosMuestra}
    ELSE {TramaLCM(i) : i \in Identidades}

\* the transport delivers one frame: the hub's directory then holds that file
Entregar(nombre, trama) ==
    /\ archivos' = [n \in {nombre} |-> trama]
    /\ UNCHANGED <<disp, consola, rm_json, clientes, srv, turno, racha, banco, pasos>>

NextHub ==
    \/ \E n \in Nombres : \E trama \in Tramas(n) : Entregar(n, trama)
    \/ procesar_fcm /\ UNCHANGED <<turno, racha, pasos>>
    \/ procesar_rm /\ UNCHANGED <<turno, racha, pasos>>
    \/ procesar_kum /\ UNCHANGED <<turno, racha, pasos>>
    \/ procesar_lcm /\ UNCHANGED <<turno, racha, pasos>>

SpecHub == Init /\ [][NextHub]_vars

(* ------------------------------------------------------------------ *)
(* The hub alone, a file holding a frame of any of the four kinds       *)
(* ------------------------------------------------------------------ *)

\* frames of the four kinds (the Regular ones at key index 0)
TodasLasTramas ==
    Tramas("fcm.bin") \cup Tramas("kum.bin") \cup Tramas("lcm.bin")
    \cup {TramaRM(i, 0, c) : i \in Identidades, c \in CifradosMuestra}

NextCruce ==
    \/ \E n \in Nombres : \E trama \in TodasLasTramas : Entregar(n, trama)
    \/ procesar_fcm /\ UNCHANGED <<turno, racha, pasos>>
    \/ procesar_rm /\ UNCHANGED <<turno, racha, pasos>>
    \/ procesar_kum /\ UNCHANGED <<turno, racha, pasos>>
    \/ procesar_lcm /\ UNCHANGED <<turno, racha, pasos>>

SpecCruce == Init /\ [][NextCruce]_vars

(* ------------------------------------------------------------------ *)
(* The cipher alone: cifrar_mensaje and descifrar_mensaje on drawn      *)
(* texts and keys                                                       *)
(* ------------------------------------------------------------------ *)

\* how many sample keys the bench draws besides 0
NumMuestras == 3

\* every text of 1 to 8 characters over "a" and DEL, and texts outside the
\* cipher's contract: "", "a\0", "\0a", nine characters, "é"
RECURSIVE TextosDe(_)
TextosDe(n) ==
    IF n = 0 THEN {<<>>}
    ELSE {<<c>> \o t : c \in {97, 127}, t \in TextosDe(n - 1)}
TextosBanco ==
    UNION {TextosDe(n) : n \in 1..BLOQUE}
    \cup {<<>>, <<97, 0>>, <<0, 97>>, <<49, 50, 51, 52, 53, 54, 55, 56, 57>>, <<233>>}

\* keys in [0, 2^64): 0, the samples, and 0x6161000000000000
LlavesBanco ==
    {<<>>, <<0, 0, 0, 0, 0, 0, 97, 97>>} \cup {Muestra64(i) : i \in 0..(NumMuestras - 1)}

FueraDelBanco ==
    UNCHANGED <<disp, consola, rm_json, archivos, clientes, srv, turno, racha, pasos>>

\* a text and two keys are drawn
Sortear ==
    /\ banco.fase = "nada"
    /\ \E t \in TextosBanco, k \in LlavesBanco, k2 \in LlavesBanco :
          banco' = [banco EXCEPT !.fase = "entrada", !.texto = t,
                                 !.llave = k, !.llave2 = k2]
    /\ FueraDelBanco

\* cifrado = cifrar_mensaje(texto, llave)
Cifrar ==
    /\ banco.fase = "entrada"
    /\ banco' = [banco EXCEPT !.fase = "cifrado",
                              !.cifrado = cifrar_mensaje(banco.texto, banco.llave)]
    /\ FueraDelBanco

\* descifrar_mensaje(cifrado, llave), with the key that encrypted
Descifrar ==
    /\ banco.fase = "cifrado"
    /\ banco' = [banco EXCEPT !.fase = "claro",
                              !.claro = descifrar_mensaje(banco.cifrado, banco.llave)]
    /\ FueraDelBanco

\* descifrar_mensaje(cifrado, llave2), with the other key
DescifrarOtra ==
    /\ banco.fase = "cifrado"
    /\ banco' = [banco EXCEPT !.fase = "otra",
                              !.claro = descifrar_mensaje(banco.cifrado, banco.llave2)]
    /\ FueraDelBanco

NextCifra == Sortear \/ Cifrar \/ Descifrar \/ DescifrarOtra

SpecCifra == Init /\ [][NextCifra]_vars

(* ------------------------------------------------------------------ *)
(* Key derivation alone: the primitives and generar_llaves of both      *)
(* classes on drawn parameters                                          *)
(* ------------------------------------------------------------------ *)

\* values in [0, 2^64) for P, Q and S: 0, a 16-bit prime, 2^63 and the samples
Palabras ==
    {<<>>, Entero(65521), <<0, 0, 0, 0, 0, 0, 0, 128>>}
    \cup {Muestra64(i) : i \in 0..(NumMuestras - 1)}

\* a device that already holds a schedule and parameters, at key index i
ClienteUsado(i) ==
    [id |-> 63, llaves |-> <<MASK64, <<>>, Entero(1), Entero(2)>>, llave_actual |-> i,
     p |-> Entero(65521), q |-> Entero(65521), s |-> MASK64]

\* a hub table that already holds entries for identities 5 and 63
TablaUsada ==
    [i \in {5, 63} |->
        [p |-> Entero(i), q |-> Entero(65521), s |-> MASK64,
         llaves |-> <<Entero(i), MASK64, <<>>, Entero(2)>>]]

\* (P, Q, S) are drawn, and the key index of the device of the second run
SortearPQS ==
    /\ banco.fase = "nada"
    /\ \E p \in Palabras, q \in Palabras, s \in Palabras, i \in {1, 3} :
          banco' = [fase |-> "pqs", p |-> p, q |-> q, s |-> s, indice |-> i,
                    mez |-> <<>>, mut |-> <<>>,
                    k1 |-> <<>>, k2 |-> <<>>, h1 |-> <<>>, h2 |-> <<>>]
    /\ FueraDelBanco

\* the primitives as generar_llaves calls them: funcion_mezcla(p, s) and
\* funcion_mutacion(s, q)
Primitivas ==
    /\ banco.fase = "pqs"
    /\ banco' = [banco EXCEPT !.fase = "primitivas",
                              !.mez = funcion_mezcla(banco.p, banco.s),
                              !.mut = funcion_mutacion(banco.s, banco.q)]
    /\ FueraDelBanco

\* ClienteIoT.generar_llaves on a new device
Derivar ==
    /\ banco.fase = "pqs"
    /\ banco' = [banco EXCEPT !.fase = "dispositivo",
                              !.k1 = ConLlaves(ClienteNuevo(5), banco.p, banco.q,
                                               banco.s).llaves]
    /\ FueraDelBanco

\* ClienteIoT.generar_llaves with the same (P, Q, S) on a device in use
DerivarOtraVez ==
    /\ banco.fase = "dispositivo"
    /\ banco' = [banco EXCEPT !.fase = "dispositivo2",
                              !.k2 = ConLlaves(ClienteUsado(banco.indice), banco.p,
                                               banco.q, banco.s).llaves]
    /\ FueraDelBanco

\* ServidorIoT.generar_llaves(P, Q, S) as procesar_fcm and procesar_kum store its
\* result, on an empty table and on a table in use
DerivarServidor ==
    /\ banco.fase = "dispositivo2"
    /\ banco' = [banco EXCEPT !.fase = "servidor",
                              !.h1 = Registrar(<<>>, 5, banco.p, banco.q, banco.s)[5].llaves,
                              !.h2 = Registrar(TablaUsada, 5, banco.p, banco.q,
                                               banco.s)[5].llaves]
    /\ FueraDelBanco

NextDeriva == SortearPQS \/ Primitivas \/ Derivar \/ DerivarOtraVez \/ DerivarServidor

SpecDeriva == Init /\ [][NextDeriva]_vars

(* ------------------------------------------------------------------ *)
(* Frames alone: the bytes a crear_* method writes for drawn fields,    *)
(* read back as the matching procesar_* method reads them               *)
(* ------------------------------------------------------------------ *)

\* an identity in 0..63, a kind and the fields of a frame are drawn
SortearTrama ==
    /\ banco.fase = "nada"
    /\ \/ \E i \in 0..63, tp \in {FCM, KUM}, p \in Palabras, q \in Palabras,
             s \in Semillas \cup {<<>>} :
             banco' = [fase |-> "campos", id |-> i, tipo |-> tp, p |-> p, q |-> q,
                       s |-> s, indice |-> 0, cifrado |-> <<>>,
                       trama |-> <<>>, leido |-> <<>>]
       \/ \E i \in 0..63, x \in 0..3, c \in Palabras :
             banco' = [fase |-> "campos", id |-> i, tipo |-> RM, p |-> <<>>, q |-> <<>>,
                       s |-> <<>>, indice |-> x, cifrado |-> c,
                       trama |-> <<>>, leido |-> <<>>]
       \/ \E i \in 0..63 :
             banco' = [fase |-> "campos", id |-> i, tipo |-> LCM, p |-> <<>>, q |-> <<>>,
                       s |-> <<>>, indice |-> 0, cifrado |-> <<>>,
                       trama |-> <<>>, leido |-> <<>>]
    /\ FueraDelBanco

\* the bytes the device writes: crear_fcm, crear_rm, crear_kum, crear_lcm
Empaquetar ==
    /\ banco.fase = "campos"
    /\ banco' = [banco EXCEPT
                   !.fase = "trama",
                   !.trama = IF banco.tipo \in {FCM, KUM}
                             THEN TramaParametros(banco.id, banco.tipo, banco.p,
                                                  banco.q, banco.s)
                             ELSE IF banco.tipo = RM
                             THEN TramaRM(banco.id, banco.indice, banco.cifrado)
                             ELSE TramaLCM(banco.id)]
    /\ FueraDelBanco

\* the fields the matching handler reads from those bytes
Desempaquetar ==
    /\ banco.fase = "trama"
    /\ banco' = [banco EXCEPT
                   !.fase = "leido",
                   !.leido = IF banco.tipo \in {FCM, KUM} THEN LeerParametros(banco.trama)
                             ELSE IF banco.tipo = RM THEN LeerRM(banco.trama)
                             ELSE LeerLCM(banco.trama)]
    /\ FueraDelBanco

NextTrama == SortearTrama \/ Empaquetar \/ Desempaquetar

SpecTrama == Init /\ [][NextTrama]_vars

(* ------------------------------------------------------------------ *)
(* Properties                                                          *)
(* ------------------------------------------------------------------ *)

\* a text of 1 to 8 ASCII bytes with no zero byte
TextoValido(t) ==
    Len(t) >= 1 /\ Len(t) <= BLOQUE /\ \A k \in 1..Len(t) : t[k] >= 1 /\ t[k] <= 127

\* C1: for every text of 1 to 8 ASCII bytes without a zero byte and every key
\* below 2^64, decrypting the encryption of the text with the same key returns
\* exactly the text.
C1_IdaYVuelta ==
    (banco.fase = "claro" /\ TextoValido(banco.texto))
        => banco.claro = [exc |-> "", texto |-> banco.texto]
C1_Testigo ==
    /\ banco.fase = "claro"
    /\ Len(banco.texto) = BLOQUE /\ TextoValido(banco.texto)
    /\ banco.llave = MASK64
    /\ banco.claro.texto = banco.texto

\* C10 (as claimed): decrypting with a different key never returns the text that
\* was encrypted.
C10_LlaveVieja ==
    (banco.fase = "otra" /\ TextoValido(banco.texto) /\ banco.llave # banco.llave2)
        => ~(banco.claro.exc = "" /\ banco.claro.texto = banco.texto)

\* C2: in lockstep, whenever the hub processes the Regular frame of a crear_rm
\* whose text has 1 to 8 ASCII bytes and no zero byte, it reports the text as
\* recovered, for the device's identity; this at every key index and after any
\* number of key updates.
C2_HubRecupera ==
    [][(turno = "rm" /\ turno' = "cliente" /\ TextoValido(rm_json.mensaje_original))
          => /\ srv'.op = "rm" /\ srv'.excepcion = ""
             /\ srv'.salida = "Mensaje descifrado"
             /\ srv'.mensaje = rm_json.mensaje_original
             /\ \E d \in DOMAIN disp : srv'.id = disp[d].id]_vars
C2_Testigo ==
    /\ turno = "cliente"
    /\ srv.op = "rm" /\ srv.salida = "Mensaje descifrado"
    /\ srv.mensaje = <<104, 105>> /\ rm_json.mensaje_original = <<104, 105>>
    /\ rm_json.indice = 3
    /\ {"fcm.bin", "kum.bin"} \subseteq DOMAIN archivos
    /\ srv.id \in DOMAIN clientes
    /\ clientes[srv.id].s = UnpackQ(SubSeq(archivos["kum.bin"], 18, 25))
    /\ clientes[srv.id].s # UnpackQ(SubSeq(archivos["fcm.bin"], 18, 25))

\* C3 (as claimed): right after crear_fcm or crear_kum the device's key index
\* is 0.
C3_IndiceCero ==
    \A d \in DOMAIN disp :
        consola[d] \in {"[FCM CREADO] Valores guardados en fcm.json",
                        "[KUM CREADO] Nuevas llaves en kum.json"}
            => disp[d].llave_actual = 0

\* C4: a crear_rm on a device with a schedule writes a Regular frame with the
\* current key index and the text encrypted under the key at that index, then
\* advances the index by 1 mod 4; the index is always in 0..3, and after 4
\* consecutive crear_rm calls it is back at its value before the first.
C4_Rotacion ==
    /\ [][\A d \in DOMAIN disp : \A m \in Mensajes :
             (disp[d].llaves # <<>> /\ LlamaRM(d, m))
                 => /\ archivos'["rm.bin"] =
                          <<4 * disp[d].id + 1, disp[d].llave_actual>>
                          \o PackQ(cifrar_mensaje(m, disp[d].llaves[disp[d].llave_actual + 1]))
                    /\ disp'[d].llave_actual = (disp[d].llave_actual + 1) % 4]_vars
    /\ [](\A d \in DOMAIN disp :
             /\ disp[d].llave_actual \in 0..3
             /\ racha[d].n = 4 => disp[d].llave_actual = racha[d].inicio)
C4_Testigo ==
    \E d \in DOMAIN disp :
        /\ racha[d].n = 4 /\ racha[d].inicio = 2 /\ disp[d].llave_actual = 2
        /\ "rm.bin" \in DOMAIN archivos /\ archivos["rm.bin"][2] = 1

\* the header fields of the frame a file holds, by arithmetic on its first byte
IdTrama(b)   == b[1] \div 4
TipoTrama(b) == b[1] % 4

\* C5: procesar_rm and procesar_kum, given a frame of their kind whose identity
\* has no entry in the table, report "Cliente no registrado", return no text and
\* leave the table as it was.
C5_Desconocido ==
    [][/\ (/\ "rm.bin" \in DOMAIN archivos
           /\ TipoTrama(archivos["rm.bin"]) = 1
           /\ IdTrama(archivos["rm.bin"]) \notin DOMAIN clientes
           /\ procesar_rm)
          => /\ srv' = [op |-> "rm", excepcion |-> "",
                        salida |-> "Error: Cliente no registrado",
                        id |-> IdTrama(archivos["rm.bin"]), mensaje |-> <<>>]
             /\ clientes' = clientes
       /\ (/\ "kum.bin" \in DOMAIN archivos
           /\ TipoTrama(archivos["kum.bin"]) = 2
           /\ IdTrama(archivos["kum.bin"]) \notin DOMAIN clientes
           /\ procesar_kum)
          => /\ srv' = [op |-> "kum", excepcion |-> "",
                        salida |-> "Error: Cliente no registrado",
                        id |-> IdTrama(archivos["kum.bin"]), mensaje |-> <<>>]
             /\ clientes' = clientes]_vars
C5_Testigo ==
    /\ srv.op = "kum" /\ srv.salida = "Error: Cliente no registrado" /\ srv.id = 5
    /\ DOMAIN clientes = {63}
    /\ "kum.bin" \in DOMAIN archivos /\ IdTrama(archivos["kum.bin"]) = 5

\* C6: procesar_lcm on a LastContact frame reports "Cliente desconectado" when
\* the identity has an entry and "Cliente no existia" when it has none, so twice
\* in a row it reports the first and then the second; neither call raises, the
\* identity has no entry afterwards and every other entry is unchanged.
C6_Desconexion ==
    [][(/\ "lcm.bin" \in DOMAIN archivos
        /\ TipoTrama(archivos["lcm.bin"]) = 3
        /\ procesar_lcm)
          => LET i == IdTrama(archivos["lcm.bin"])
             IN  /\ srv'.op = "lcm" /\ srv'.excepcion = "" /\ srv'.id = i
                 /\ i \in DOMAIN clientes => srv'.salida = "Cliente desconectado"
                 /\ i \notin DOMAIN clientes => srv'.salida = "Cliente no existia"
                 /\ (srv.op = "lcm" /\ srv.id = i /\ srv.salida = "Cliente desconectado")
                       => srv'.salida = "Cliente no existia"
                 /\ DOMAIN clientes' = DOMAIN clientes \ {i}
                 /\ \A j \in DOMAIN clientes' : clientes'[j] = clientes[j]]_vars
C6_Testigo ==
    /\ srv.op = "lcm" /\ srv.salida = "Cliente no existia" /\ srv.id = 5
    /\ DOMAIN clientes = {63}
    /\ "lcm.bin" \in DOMAIN archivos /\ IdTrama(archivos["lcm.bin"]) = 5

\* C7 (as claimed): procesar_rm, given a Regular frame of a registered identity
\* whose key-index byte is at least the length of the stored schedule, reports
\* an error status, leaves the table as it was and the hub goes on running.
C7_IndiceFueraDeRango ==
    [][(/\ "rm.bin" \in DOMAIN archivos
        /\ TipoTrama(archivos["rm.bin"]) = 1
        /\ IdTrama(archivos["rm.bin"]) \in DOMAIN clientes
        /\ archivos["rm.bin"][2] >= Len(clientes[IdTrama(archivos["rm.bin"])].llaves)
        /\ procesar_rm)
          => /\ srv'.excepcion = ""
             /\ srv'.salida # "" /\ srv'.salida # "Mensaje descifrado"
             /\ clientes' = clientes]_vars

\* C8: crear_rm on a device without a schedule prints the error line, writes no
\* frame and changes no field of the device.
C8_SinLlaves ==
    [][\A d \in DOMAIN disp : \A m \in Mensajes :
          (disp[d].llaves = <<>> /\ LlamaRM(d, m))
              => /\ consola'[d] = "Error: Primero debe generar FCM"
                 /\ archivos' = archivos
                 /\ rm_json' = rm_json
                 /\ disp' = disp]_vars
C8_Testigo ==
    \E d \in DOMAIN disp :
        /\ consola[d] = "Error: Primero debe generar FCM"
        /\ disp[d].llaves = <<>> /\ disp[d].p # <<>>
        /\ disp[d].llave_actual = 2
        /\ "lcm.bin" \in DOMAIN archivos

\* C9 (as claimed): crear_kum and crear_lcm on a device without a schedule write
\* no frame and leave the device as it was, without a schedule.
C9_SinSesion ==
    [][\A d \in DOMAIN disp :
          (disp[d].llaves = <<>> /\ (LlamaKUM(d) \/ LlamaLCM(d)))
              => /\ archivos' = archivos
                 /\ disp' = disp]_vars

\* C11: generar_llaves is a function of (P, Q, S) alone: run on a new device and
\* on a device that holds a schedule at another key index, and by the hub on an
\* empty table and on a table with entries, it yields the same 4 keys each time.
C11_Determinista ==
    banco.fase = "servidor"
        => /\ Len(banco.k1) = 4 /\ banco.k2 = banco.k1
           /\ Len(banco.h1) = 4 /\ banco.h2 = banco.h1
C11_Testigo ==
    /\ banco.fase = "servidor" /\ banco.indice = 3
    /\ banco.p = MASK64 /\ banco.q = Entero(65521) /\ banco.s = Muestra64(1)
    /\ banco.k2 = banco.k1 /\ banco.h2 = banco.h1 /\ Len(banco.k1) = 4

\* x mod 2^64
Mod64(x) == Norm([k \in 1..8 |-> ByteDe(x, k)])
\* the primitives reduced mod 2^64, and the circular right rotation by 32 bits
\* of a 64-bit word
mix64(x, y) == Mod64(SUMA(XOR(x, y), OR(AND(x, MASK16), SHL(y, 16))))
mutate64(x, y) == Mod64(XOR(SUMA(x, y), OR(SHL(x, 8), SHR(y, 8))))
rotr64(w) == OR(SHR(w, 32), Mod64(SHL(w, 32)))

\* C13 (as claimed): funcion_mezcla and funcion_mutacion return the 64-bit
\* wrapped value, so their results are below 2^64.
C13_Ancho64 ==
    banco.fase = "primitivas"
        => /\ banco.mez = mix64(banco.p, banco.s)
           /\ banco.mut = mutate64(banco.s, banco.q)
           /\ Len(banco.mez) <= 8 /\ Len(banco.mut) <= 8

\* the reference schedule: i keys from seed s
RECURSIVE Referencia(_, _, _, _)
Referencia(p, q, s, i) ==
    IF i = 0 THEN <<>>
    ELSE <<XOR(rotr64(mix64(p, s)), q)>> \o Referencia(p, q, mutate64(s, q), i - 1)

\* C14 (as claimed): the keys of generar_llaves are those of the reference
\* schedule computed in 64-bit words.
C14_Referencia ==
    banco.fase = "dispositivo" => banco.k1 = Referencia(banco.p, banco.q, banco.s, 4)

\* C19: for every (P, Q, S) below 2^64, ClienteIoT.generar_llaves and
\* ServidorIoT.generar_llaves produce the same 4 keys.
C19_MismasLlaves ==
    banco.fase = "servidor" => banco.h1 = banco.k1
C19_Testigo ==
    /\ banco.fase = "servidor"
    /\ banco.p = Entero(65521) /\ banco.q = Entero(65521) /\ banco.s = MASK64
    /\ banco.h1 = banco.k1 /\ Len(banco.h1) = 4 /\ Len(banco.k1[1]) = 8

\* C12: the frame the device writes for an identity in 0..63, a kind and field
\* values below 2^64 (key index in 0..3) starts with the byte 4 * id + tag, has
\* the length of its kind, and the matching handler reads from it the same
\* identity, tag and field values.
C12_TramaIdaYVuelta ==
    banco.fase = "leido"
        => /\ banco.trama[1] = 4 * banco.id + banco.tipo
           /\ banco.leido.id = banco.id /\ banco.leido.tipo = banco.tipo
           /\ banco.tipo \in {0, 2}
                 => /\ Len(banco.trama) = 25
                    /\ banco.leido.p = banco.p /\ banco.leido.q = banco.q
                    /\ banco.leido.s = banco.s
           /\ banco.tipo = 1
                 => /\ Len(banco.trama) = 10
                    /\ banco.leido.idx_llave = banco.indice
                    /\ banco.leido.cifrado = banco.cifrado
           /\ banco.tipo = 3 => Len(banco.trama) = 1
C12_Testigo ==
    /\ banco.fase = "leido" /\ banco.id = 63 /\ banco.tipo = 1
    /\ banco.indice = 3 /\ banco.cifrado = MASK64
    /\ banco.trama = <<253, 3, 255, 255, 255, 255, 255, 255, 255, 255>>
    /\ banco.leido.id = 63 /\ banco.leido.idx_llave = 3 /\ banco.leido.cifrado = MASK64

\* a schedule of exactly 4 keys, each below 2^64
EsquemaCompleto(ll) == Len(ll) = 4 /\ \A k \in 1..4 : Len(ll[k]) <= 8

\* C15: between operations the device's schedule is empty or has exactly 4 keys,
\* every entry of the hub table has exactly 4 keys, and every key is below 2^64.
C15_CuatroLlaves ==
    /\ \A d \in DOMAIN disp : disp[d].llaves = <<>> \/ EsquemaCompleto(disp[d].llaves)
    /\ \A i \in DOMAIN clientes : EsquemaCompleto(clientes[i].llaves)
C15_Testigo ==
    /\ turno = "cliente" /\ srv.op = "kum" /\ srv.salida = "Llaves actualizadas"
    /\ \E d \in DOMAIN disp :
          /\ EsquemaCompleto(disp[d].llaves)
          /\ \E k \in 1..4 : Len(disp[d].llaves[k]) = 8 /\ disp[d].llaves[k][8] >= 128
          /\ disp[d].id \in DOMAIN clientes
          /\ EsquemaCompleto(clientes[disp[d].id].llaves)

\* C20 (as claimed): in lockstep, after any sequence of crear_fcm, crear_rm,
\* crear_kum and crear_lcm calls on a new device, each frame processed by the
\* matching handler, the device holds a schedule exactly when the hub table has
\* an entry for its identity, and then the entry's keys are the device's.
C20_Acuerdo ==
    turno = "cliente"
        => \A d \in DOMAIN disp :
              /\ (disp[d].llaves # <<>>) <=> (disp[d].id \in DOMAIN clientes)
              /\ disp[d].id \in DOMAIN clientes
                    => clientes[disp[d].id].llaves = disp[d].llaves

\* the parameters a FirstContact or KeyUpdate frame carries, and the entry the
\* hub is to hold for them
EntradaDe(b) ==
    LET p == Norm(SubSeq(b, 2, 9))
        q == Norm(SubSeq(b, 10, 17))
        s == Norm(SubSeq(b, 18, 25))
    IN  [p |-> p, q |-> q, s |-> s, llaves |-> LlavesServidor(p, q, s)]
\* the file holds a whole frame with this tag
TramaCon(nombre, etiqueta, largo) ==
    /\ nombre \in DOMAIN archivos
    /\ Len(archivos[nombre]) >= largo
    /\ TipoTrama(archivos[nombre]) = etiqueta

\* C16: every entry's keys are those derived from that entry's own (p, q, s);
\* an accepted FirstContact frame, or KeyUpdate frame of a registered identity,
\* replaces the whole entry by the frame's parameters and their keys, and no
\* other step changes an entry that stays in the table.
C16_Paso ==
    /\ (TramaCon("fcm.bin", 0, 25) /\ procesar_fcm)
          => clientes'[IdTrama(archivos["fcm.bin"])] = EntradaDe(archivos["fcm.bin"])
    /\ (/\ TramaCon("kum.bin", 2, 25)
        /\ IdTrama(archivos["kum.bin"]) \in DOMAIN clientes
        /\ procesar_kum)
          => clientes'[IdTrama(archivos["kum.bin"])] = EntradaDe(archivos["kum.bin"])
    /\ \A j \in DOMAIN clientes' :
          \/ j \in DOMAIN clientes /\ clientes'[j] = clientes[j]
          \/ /\ TramaCon("fcm.bin", 0, 25) /\ j = IdTrama(archivos["fcm.bin"])
             /\ procesar_fcm
          \/ /\ TramaCon("kum.bin", 2, 25) /\ j = IdTrama(archivos["kum.bin"])
             /\ j \in DOMAIN clientes
             /\ procesar_kum
C16_ReemplazoCompleto ==
    /\ [](\A i \in DOMAIN clientes :
             clientes[i].llaves
                 = LlavesServidor(clientes[i].p, clientes[i].q, clientes[i].s))
    /\ [][C16_Paso]_vars
C16_Testigo ==
    /\ srv.op = "kum" /\ srv.salida = "Llaves actualizadas" /\ srv.id = 5
    /\ DOMAIN clientes = {5, 63}
    /\ "kum.bin" \in DOMAIN archivos
    /\ clientes[5] = EntradaDe(archivos["kum.bin"])
    /\ clientes[63].s # clientes[5].s

\* C17: the table gains the identity of an accepted FirstContact frame, loses
\* the identity of an accepted LastContact frame, and no other step (Regular,
\* KeyUpdate, a rejected frame) changes which identities have an entry.
C17_CicloDeVida ==
    [][DOMAIN clientes' =
          IF TramaCon("fcm.bin", 0, 25) /\ procesar_fcm
          THEN DOMAIN clientes \cup {IdTrama(archivos["fcm.bin"])}
          ELSE IF TramaCon("lcm.bin", 3, 1) /\ procesar_lcm
          THEN DOMAIN clientes \ {IdTrama(archivos["lcm.bin"])}
          ELSE DOMAIN clientes]_vars
C17_Testigo ==
    /\ srv.op = "lcm" /\ srv.salida = "Cliente desconectado" /\ srv.id = 5
    /\ DOMAIN clientes = {63}
    /\ "lcm.bin" \in DOMAIN archivos /\ IdTrama(archivos["lcm.bin"]) = 5

\* the handler that reads a file, the tag it expects and the line it prints
\* for another tag
ManejadorDe(nombre) ==
    IF nombre = "fcm.bin" THEN procesar_fcm
    ELSE IF nombre = "rm.bin" THEN procesar_rm
    ELSE IF nombre = "kum.bin" THEN procesar_kum
    ELSE procesar_lcm
EtiquetaDe(nombre) ==
    IF nombre = "fcm.bin" THEN 0 ELSE IF nombre = "rm.bin" THEN 1
    ELSE IF nombre = "kum.bin" THEN 2 ELSE 3
ErrorDeEtiqueta(nombre) ==
    IF nombre = "fcm.bin" THEN "Error: No es un mensaje FCM válido"
    ELSE IF nombre = "rm.bin" THEN "Error: No es un mensaje RM válido"
    ELSE IF nombre = "kum.bin" THEN "Error: No es un mensaje KUM válido"
    ELSE "Error: No es un mensaje LCM válido"

\* C18 (as claimed): a handler whose file holds a frame of another kind prints
\* its invalid-tag line, raises nothing and leaves the table as it was.
C18_EtiquetaInvalida ==
    [][\A n \in Nombres :
          (/\ n \in DOMAIN archivos
           /\ archivos[n] \in TodasLasTramas
           /\ TipoTrama(archivos[n]) # EtiquetaDe(n)
           /\ ManejadorDe(n))
              => /\ srv'.excepcion = ""
                 /\ srv'.salida = ErrorDeEtiqueta(n)
                 /\ clientes' = clientes]_vars

\* the file the hub reads on its turn
ArchivoDelTurno ==
    IF turno = "fcm" THEN "fcm.bin" ELSE IF turno = "rm" THEN "rm.bin"
    ELSE IF turno = "kum" THEN "kum.bin" ELSE "lcm.bin"

\* C21: with two devices of distinct identities, in any interleaving of their
\* operations, a handler call for a frame of identity A leaves the entry of
\* every other identity as it was (present or absent, same parameters and
\* keys), and every Regular frame is decoded to the text its device sent, under
\* that device's identity.
C21_Paso ==
    (turno # "cliente" /\ turno' = "cliente")
        => /\ \A b \in (DOMAIN clientes \cup DOMAIN clientes')
                      \ {IdTrama(archivos[ArchivoDelTurno])} :
                 /\ b \in DOMAIN clientes /\ b \in DOMAIN clientes'
                 /\ clientes'[b] = clientes[b]
           /\ turno = "rm"
                 => /\ srv'.op = "rm" /\ srv'.excepcion = ""
                    /\ srv'.salida = "Mensaje descifrado"
                    /\ srv'.mensaje = rm_json.mensaje_original
                    /\ \A d \in DOMAIN disp :
                          rm_json.mensaje_original = MensajeDe(d) => srv'.id = disp[d].id
C21_Aislamiento == [][C21_Paso]_vars
C21_Testigo ==
    /\ turno = "cliente" /\ srv.op = "rm" /\ srv.salida = "Mensaje descifrado"
    /\ srv.mensaje = MensajeDe(2) /\ srv.id = disp[2].id
    /\ DOMAIN clientes = {disp[1].id, disp[2].id}
    /\ disp[1].llave_actual = 1
    /\ "kum.bin" \in DOMAIN archivos /\ IdTrama(archivos["kum.bin"]) = disp[1].id
    /\ clientes[disp[1].id] = EntradaDe(archivos["kum.bin"])
    /\ clientes[disp[2].id] = EntradaDe(archivos["fcm.bin"])
    /\ clientes[disp[1].id].s # clientes[disp[2].id].s

\* C22 (as claimed): procesar_rm, given a Regular frame of a registered identity
\* with a key index in 0..3 and any ciphertext, also one made under another key
\* than the stored one, reports a recovered text or an error, raises nothing
\* and leaves the table as it was.
C22_SiempreInforma ==
    [][(/\ TramaCon("rm.bin", 1, 10)
        /\ IdTrama(archivos["rm.bin"]) \in DOMAIN clientes
        /\ archivos["rm.bin"][2] < 4
        /\ procesar_rm)
          => /\ srv'.op = "rm" /\ srv'.excepcion = "" /\ srv'.salida # ""
             /\ clientes' = clientes]_vars

====
